---- MODULE Spec2Model ----
(***************************************************************************)
(* Model of the Workflowy client: the client and its setters, the          *)
(* transport core (Client.newRequest, Client.do with its 429 retry         *)
(* protocol, parseRetryAfter) of client.go, and the API operations of      *)
(* api.go.                                                                 *)
(*                                                                         *)
(* Header values are sequences of one-character strings.  64-bit integers  *)
(* (int64, time.Duration) are sequences of four 16-bit limbs, least        *)
(* significant first, in two's complement, so that arithmetic wraps        *)
(* exactly as the machine's does.                                          *)
(***************************************************************************)
EXTENDS Integers, Sequences, FiniteSets, TLC

VARIABLES
    pc,        \* position of the call: "new", "do", "resp", "wait", "done"
    v,         \* whether the caller passed an output value to do
    rawBody,   \* bytes captured by newRequest (NoBody when body == nil)
    reqBody,   \* unread bytes of req.Body (NoBody when req.Body == nil)
    getBody,   \* whether req.GetBody is set
    attempt,   \* loop counter of do
    resp,      \* response being handled (NoResp outside "resp")
    open,      \* number of response bodies received and not yet closed
    ctxDone,   \* whether req.Context() is done
    ctxErr,    \* the error req.Context().Err() reports once done
    timer,     \* channel of time.After: "idle", "armed", "fired"
    result,    \* what do returned (NoResult until it returns)
    sent,      \* history: body offered to the transport by each send
    rcvd,      \* history: outcome of each exchange
    waits,     \* history: duration of each retry wait begun
    cancelAt,  \* history: number of sends when ctx was cancelled in a wait, else -1
    req,       \* the request newRequest built: method, URL and header
    out,       \* the value v points to: the members decoded from a 2xx body
    sentReq,   \* history: method, URL and header of each send
    op,        \* the API operation called (NoOp for newRequest and do used directly)
    opIn,      \* the arguments of the operation
    opOut,     \* what the operation returned (NoResult before)
    ph,        \* parse run: header value
    pnow,      \* parse run: the reference time
    pres,      \* parse run: result of parseRetryAfter (NoResult before)
    apiKey,    \* Client.apiKey
    baseURL,   \* Client.baseURL
    httpClient,\* Client.httpClient
    urlArg,    \* history: argument of the last SetBaseURL (not called before any)
    hcArg,     \* history: argument of the last SetHTTPClient (not called before any)
    prevClient,\* history: httpClient before the last SetHTTPClient
    used,      \* history: transport of the last exchange since the last setter
    calls      \* concurrent calls of do: position, attempt and history of each

vars == <<pc, v, rawBody, reqBody, getBody, attempt, resp, open, ctxDone, ctxErr,
          timer, result, sent, rcvd, waits, cancelAt, req, out, sentReq, op, opIn,
          opOut, ph, pnow, pres, apiKey, baseURL, httpClient, urlArg, hcArg,
          prevClient, used, calls>>

doVars == <<pc, v, rawBody, reqBody, getBody, attempt, resp, open, ctxDone, ctxErr,
            timer, result, sent, rcvd, waits, cancelAt, req, out, sentReq, op, opIn,
            opOut>>

opVars == <<op, opIn, opOut>>

parseVars == <<ph, pnow, pres>>

clientVars == <<apiKey, baseURL, httpClient, urlArg, hcArg, prevClient, used>>

concVars == <<calls>>

----------------------------------------------------------------------------
(* Bounds of the model. *)

\* longest header enumerated over HeaderAlphabet
MaxHeaderLen == 3

\* longest request body value
MaxBodyLen == 1

\* longest SetBaseURL argument enumerated over URLChars
MaxURLLen == 3

\* number of calls running concurrently on the client
NumCalls == 2

----------------------------------------------------------------------------
(* Fixed-width integers as limbs. *)

LimbBase == 65536

\* limbs of an int64 / time.Duration
W64 == 4

\* limbs of the exact (non-wrapping) reference arithmetic
W128 == 8

RECURSIVE NatLimbs(_, _)
\* the k low limbs of the natural number n
NatLimbs(n, k) ==
    IF k = 0 THEN <<>> ELSE <<n % LimbBase>> \o NatLimbs(n \div LimbBase, k - 1)

\* one's complement
NotL(a) == [i \in 1..Len(a) |-> LimbBase - 1 - a[i]]

\* the k-limb two's complement of the (small) integer n
FromInt(n, k) == IF n >= 0 THEN NatLimbs(n, k) ELSE NotL(NatLimbs(-n - 1, k))

RECURSIVE AddCarry(_, _, _)
\* a + b + c, wrapped to Len(a) limbs
AddCarry(a, b, c) ==
    IF a = <<>> THEN <<>>
    ELSE LET s == a[1] + b[1] + c
         IN  <<s % LimbBase>> \o AddCarry(Tail(a), Tail(b), s \div LimbBase)

\* the operands are bound to their values before the limbs are added
AddL(a, b) == CHOOSE r \in {AddCarry(x, y, 0) : x \in {a}, y \in {b}} : TRUE

RECURSIVE MulCarry(_, _, _)
\* a * m + c, wrapped to Len(a) limbs, for 0 <= m < 2^15
MulCarry(a, m, c) ==
    IF a = <<>> THEN <<>>
    ELSE LET p == a[1] * m + c
         IN  <<p % LimbBase>> \o MulCarry(Tail(a), m, p \div LimbBase)

\* the operand is bound to its value before the limbs are multiplied
MulSmall(a, m) == CHOOSE r \in {MulCarry(x, m, 0) : x \in {a}} : TRUE

IsNegL(a) == a[Len(a)] >= LimbBase \div 2

\* a local variable of the code: e is evaluated once, and F reads its value
Let(e, F(_)) == CHOOSE r \in {F(x) : x \in {e}} : TRUE

IsZeroL(a) == \A i \in 1..Len(a) : a[i] = 0

\* a widened to k limbs, keeping its signed value
SignExtend(a, k) ==
    [i \in 1..k |-> IF i <= Len(a) THEN a[i] ELSE IF IsNegL(a) THEN LimbBase - 1 ELSE 0]

\* a widened to k limbs, keeping its unsigned value
ZeroExtend(a, k) == [i \in 1..k |-> IF i <= Len(a) THEN a[i] ELSE 0]

\* the low k limbs of a: the conversion to a narrower integer type
Truncate(a, k) == [i \in 1..k |-> a[i]]

RECURSIVE LessU(_, _)
\* unsigned a < b, equal lengths
LessU(a, b) ==
    IF a = <<>> THEN FALSE
    ELSE LET n == Len(a)
         IN  IF a[n] # b[n] THEN a[n] < b[n]
             ELSE LessU(SubSeq(a, 1, n - 1), SubSeq(b, 1, n - 1))

\* signed a < b, equal lengths
LessS(a, b) ==
    IF IsNegL(a) # IsNegL(b) THEN IsNegL(a) ELSE LessU(a, b)

\* math.MaxInt64 and math.MinInt64 as k-limb values
MaxInt64(k) == SignExtend(<<65535, 65535, 65535, 32767>>, k)
MinInt64(k) == SignExtend(<<0, 0, 0, 32768>>, k)

Zero64 == FromInt(0, W64)

\* d > 0 for a time.Duration
Positive(d) == ~IsNegL(d) /\ ~IsZeroL(d)

----------------------------------------------------------------------------
(* Text: a string is a sequence of one-character strings. *)

Digits == <<"0", "1", "2", "3", "4", "5", "6", "7", "8", "9">>

IsDigit(c) == \E i \in 1..10 : Digits[i] = c

DigitVal(c) == (CHOOSE i \in 1..10 : Digits[i] = c) - 1

\* unicode.IsSpace, on the characters headers are built from
IsSpace(c) == c \in {" ", "\t"}

RECURSIVE TrimLeft(_)
TrimLeft(s) == IF s # <<>> /\ IsSpace(Head(s)) THEN TrimLeft(Tail(s)) ELSE s

RECURSIVE TrimRightSpace(_)
TrimRightSpace(s) ==
    IF s # <<>> /\ IsSpace(s[Len(s)]) THEN TrimRightSpace(SubSeq(s, 1, Len(s) - 1)) ELSE s

\* strings.TrimSpace
TrimSpace(s) == TrimRightSpace(TrimLeft(s))

----------------------------------------------------------------------------
(* strconv.ParseInt(s, 10, 64), as called by parseRetryAfter. *)

RECURSIVE ParseUintFrom(_, _)
\* the digit loop of strconv.ParseUint: n is the value read so far (4 limbs)
ParseUintFrom(s, n) ==
    IF s = <<>> THEN [err |-> "nil", val |-> n]
    ELSE IF ~IsDigit(Head(s)) THEN [err |-> "syntax", val |-> Zero64]
    ELSE Let(MulSmall(ZeroExtend(n, W64 + 1), 10), LAMBDA p :
         Let(AddL(p, FromInt(DigitVal(Head(s)), W64 + 1)), LAMBDA n1 :
             IF p[W64 + 1] # 0 \/ n1[W64 + 1] # 0
             THEN [err |-> "range", val |-> NotL(Zero64)]
             ELSE ParseUintFrom(Tail(s), Truncate(n1, W64))))

ParseUint(s) ==
    IF s = <<>> THEN [err |-> "syntax", val |-> Zero64] ELSE ParseUintFrom(s, Zero64)

\* two's complement negation, wrapping
NegL(a) == AddL(NotL(a), FromInt(1, Len(a)))

ParseInt(s) ==
    IF s = <<>> THEN [err |-> "syntax", val |-> Zero64]
    ELSE LET neg  == Head(s) = "-"
             rest == IF Head(s) \in {"+", "-"} THEN Tail(s) ELSE s
             cut  == MinInt64(W64)   \* 1 << 63 as an unsigned value
         IN  Let(ParseUint(rest), LAMBDA u :
             IF u.err = "syntax" THEN [err |-> "syntax", val |-> Zero64]
             ELSE IF ~neg /\ ~LessU(u.val, cut)
                  THEN [err |-> "range", val |-> MaxInt64(W64)]
             ELSE IF neg /\ LessU(cut, u.val)
                  THEN [err |-> "range", val |-> MinInt64(W64)]
             ELSE IF u.err = "range" THEN u
             ELSE [err |-> "nil", val |-> IF neg THEN NegL(u.val) ELSE u.val])

----------------------------------------------------------------------------
(* Times.  A time.Time is [day, sec, nsec]: days since 1970-01-01, second  *)
(* of the day, nanosecond of the second.                                   *)

IsLeap(y) == y % 4 = 0 /\ (y % 100 # 0 \/ y % 400 = 0)

DaysIn(m, y) ==
    IF m = 2 THEN (IF IsLeap(y) THEN 29 ELSE 28)
    ELSE IF m \in {4, 6, 9, 11} THEN 30 ELSE 31

\* days from 1970-01-01 to the civil date y-m-d (proleptic Gregorian), y >= 0;
\* years are counted from -400 so that every division is of a natural number
DaysFromCivil(y, m, d) ==
    LET yy  == (IF m <= 2 THEN y - 1 ELSE y) + 400
        era == yy \div 400
        yoe == yy - era * 400
        mp  == IF m > 2 THEN m - 3 ELSE m + 9
        doy == (153 * mp + 2) \div 5 + d - 1
        doe == yoe * 365 + yoe \div 4 - yoe \div 100 + doy
    IN  (era - 1) * 146097 + doe - 719468

DayNames == << <<"M","o","n">>, <<"T","u","e">>, <<"W","e","d">>, <<"T","h","u">>,
               <<"F","r","i">>, <<"S","a","t">>, <<"S","u","n">> >>

MonthNames == << <<"J","a","n">>, <<"F","e","b">>, <<"M","a","r">>, <<"A","p","r">>,
                 <<"M","a","y">>, <<"J","u","n">>, <<"J","u","l">>, <<"A","u","g">>,
                 <<"S","e","p">>, <<"O","c","t">>, <<"N","o","v">>, <<"D","e","c">> >>

AllDigits(s) == \A i \in 1..Len(s) : IsDigit(s[i])

RECURSIVE Atoi(_, _)
\* the decimal value of a short run of digits, acc the value so far
Atoi(s, acc) == IF s = <<>> THEN acc ELSE Atoi(Tail(s), acc * 10 + DigitVal(Head(s)))

NoTime == [day |-> 0, sec |-> 0, nsec |-> -1]

\* http.ParseTime on the layout http.TimeFormat, "Mon, 02 Jan 2006 15:04:05 GMT",
\* with two-digit fields: the weekday is read and not compared with the date, the
\* day must exist in the month, nothing may precede or follow the date.
ParseTime(h) ==
    IF Len(h) # 29 THEN [err |-> "parse", t |-> NoTime]
    ELSE LET wd  == SubSeq(h, 1, 3)
             dd  == SubSeq(h, 6, 7)
             mon == SubSeq(h, 9, 11)
             yr  == SubSeq(h, 13, 16)
             hh  == SubSeq(h, 18, 19)
             mi  == SubSeq(h, 21, 22)
             ss  == SubSeq(h, 24, 25)
             shape == /\ \E i \in 1..7 : DayNames[i] = wd
                      /\ SubSeq(h, 4, 5) = <<",", " ">>
                      /\ AllDigits(dd) /\ h[8] = " "
                      /\ \E i \in 1..12 : MonthNames[i] = mon
                      /\ h[12] = " " /\ AllDigits(yr) /\ h[17] = " "
                      /\ AllDigits(hh) /\ h[20] = ":"
                      /\ AllDigits(mi) /\ h[23] = ":"
                      /\ AllDigits(ss)
                      /\ SubSeq(h, 26, 29) = <<" ", "G", "M", "T">>
         IN  IF ~shape THEN [err |-> "parse", t |-> NoTime]
             ELSE LET d  == Atoi(dd, 0)
                      m  == CHOOSE i \in 1..12 : MonthNames[i] = mon
                      y  == Atoi(yr, 0)
                      H  == Atoi(hh, 0)
                      M  == Atoi(mi, 0)
                      S  == Atoi(ss, 0)
                  IN  IF d < 1 \/ d > DaysIn(m, y) \/ H > 23 \/ M > 59 \/ S > 59
                      THEN [err |-> "range", t |-> NoTime]
                      ELSE [err |-> "nil",
                            t   |-> [day  |-> DaysFromCivil(y, m, d),
                                     sec  |-> H * 3600 + M * 60 + S,
                                     nsec |-> 0]]

\* x * time.Second, wrapping: Second = 1000 * Millisecond = 1000 * 1000 * Microsecond ...
MulSecond(x) == MulSmall(MulSmall(MulSmall(x, 1000), 1000), 1000)

\* (t - u) in nanoseconds computed in k limbs
DiffNanos(t, u, k) ==
    LET days == MulSmall(MulSmall(FromInt(t.day - u.day, k), 864), 100)
        secs == AddL(days, FromInt(t.sec - u.sec, k))
    IN  AddL(MulSecond(secs), FromInt(t.nsec - u.nsec, k))

\* Time.Sub: t - u as a Duration; when the difference does not fit, the largest
\* or the smallest Duration
TimeSub(t, u) ==
    Let(DiffNanos(t, u, W64), LAMBDA d :
    Let(DiffNanos(t, u, W128), LAMBDA exact :
        IF SignExtend(d, W128) = exact THEN d
        ELSE IF IsNegL(exact) THEN MinInt64(W64) ELSE MaxInt64(W64)))

----------------------------------------------------------------------------
(* parseRetryAfter *)

\* the integer branch: secs clamped at zero, then Duration(secs) * time.Second
SecondsBranch(secs) == IF IsNegL(secs) THEN Zero64 ELSE MulSecond(secs)

\* variant: the interval is not clamped
DateBranchUnclamped(retryAt, now) == TimeSub(retryAt, now)

\* the HTTP-date branch: retryAt.Sub(now) clamped at zero
DateBranch(retryAt, now) ==
    Let(TimeSub(retryAt, now), LAMBDA interval :
        IF IsNegL(interval) THEN Zero64 ELSE interval)

parseRetryAfter(h, now) ==
    IF h = <<>> THEN Zero64
    ELSE Let(ParseInt(TrimSpace(h)), LAMBDA i :
             IF i.err = "nil" THEN SecondsBranch(i.val)
             ELSE Let(ParseTime(h), LAMBDA d :
                      IF d.err = "nil" THEN DateBranch(d.t, now) ELSE Zero64))

----------------------------------------------------------------------------
(* Header values and reference times the runs draw from. *)

\* the largest N whose N seconds fit a Duration: "9223372036"
HExactMax == <<"9", "2", "2", "3", "3", "7", "2", "0", "3", "6">>

\* N * Second wraps to a negative Duration: "9223372037"
HWrapNeg == <<"9", "2", "2", "3", "3", "7", "2", "0", "3", "7">>

\* N * Second wraps to a small positive Duration: "18446744074"
HWrapPos == <<"1", "8", "4", "4", "6", "7", "4", "4", "0", "7", "4">>

\* math.MaxInt64: "9223372036854775807"
HMaxInt64 ==
    <<"9", "2", "2", "3", "3", "7", "2", "0", "3", "6", "8", "5", "4", "7",
      "7", "5", "8", "0", "7">>

\* math.MaxInt64 + 1: out of range for ParseInt: "9223372036854775808"
HOverInt64 ==
    <<"9", "2", "2", "3", "3", "7", "2", "0", "3", "6", "8", "5", "4", "7",
      "7", "5", "8", "0", "8">>

\* math.MinInt64: "-9223372036854775808"
HMinInt64 ==
    <<"-", "9", "2", "2", "3", "3", "7", "2", "0", "3", "6", "8", "5", "4",
      "7", "7", "5", "8", "0", "8">>

\* math.MinInt64 - 1: out of range for ParseInt: "-9223372036854775809"
HUnderInt64 ==
    <<"-", "9", "2", "2", "3", "3", "7", "2", "0", "3", "6", "8", "5", "4",
      "7", "7", "5", "8", "0", "9">>

\* above math.MaxUint64: "99999999999999999999"
HHuge ==
    <<"9", "9", "9", "9", "9", "9", "9", "9", "9", "9", "9", "9", "9", "9",
      "9", "9", "9", "9", "9", "9">>

\* an integer within spaces: " 42 "
HPadded == <<" ", "4", "2", " ">>

\* 2^32 seconds: "4294967296"
HTwoPow32 == <<"4", "2", "9", "4", "9", "6", "7", "2", "9", "6">>

\* ten seconds after Now1: "Fri, 06 Nov 2026 12:00:10 GMT"
HDateSoon ==
    <<"F", "r", "i", ",", " ", "0", "6", " ", "N", "o", "v", " ", "2", "0",
      "2", "6", " ", "1", "2", ":", "0", "0", ":", "1", "0", " ", "G", "M",
      "T">>

\* ten seconds before Now1: "Fri, 06 Nov 2026 11:59:50 GMT"
HDateEarlier ==
    <<"F", "r", "i", ",", " ", "0", "6", " ", "N", "o", "v", " ", "2", "0",
      "2", "6", " ", "1", "1", ":", "5", "9", ":", "5", "0", " ", "G", "M",
      "T">>

\* the Unix epoch: "Thu, 01 Jan 1970 00:00:00 GMT"
HDateEpoch ==
    <<"T", "h", "u", ",", " ", "0", "1", " ", "J", "a", "n", " ", "1", "9",
      "7", "0", " ", "0", "0", ":", "0", "0", ":", "0", "0", " ", "G", "M",
      "T">>

\* a leap day: "Tue, 29 Feb 2028 00:00:00 GMT"
HDateLeap ==
    <<"T", "u", "e", ",", " ", "2", "9", " ", "F", "e", "b", " ", "2", "0",
      "2", "8", " ", "0", "0", ":", "0", "0", ":", "0", "0", " ", "G", "M",
      "T">>

\* further from now than a Duration can hold: "Fri, 31 Dec 9999 23:59:59 GMT"
HDateFar ==
    <<"F", "r", "i", ",", " ", "3", "1", " ", "D", "e", "c", " ", "9", "9",
      "9", "9", " ", "2", "3", ":", "5", "9", ":", "5", "9", " ", "G", "M",
      "T">>

\* further before now than a Duration can hold: "Mon, 01 Jan 0001 00:00:00 GMT"
HDateAncient ==
    <<"M", "o", "n", ",", " ", "0", "1", " ", "J", "a", "n", " ", "0", "0",
      "0", "1", " ", "0", "0", ":", "0", "0", ":", "0", "0", " ", "G", "M",
      "T">>

\* a day the month does not have: "Mon, 30 Feb 2026 12:00:00 GMT"
HDateNoSuchDay ==
    <<"M", "o", "n", ",", " ", "3", "0", " ", "F", "e", "b", " ", "2", "0",
      "2", "6", " ", "1", "2", ":", "0", "0", ":", "0", "0", " ", "G", "M",
      "T">>

\* a date followed by a space: "Fri, 06 Nov 2026 12:00:10 GMT "
HDateTrailing ==
    <<"F", "r", "i", ",", " ", "0", "6", " ", "N", "o", "v", " ", "2", "0",
      "2", "6", " ", "1", "2", ":", "0", "0", ":", "1", "0", " ", "G", "M",
      "T", " ">>

\* a date preceded by a space: " Fri, 06 Nov 2026 12:00:10 GMT"
HDateLeading ==
    <<" ", "F", "r", "i", ",", " ", "0", "6", " ", "N", "o", "v", " ", "2",
      "0", "2", "6", " ", "1", "2", ":", "0", "0", ":", "1", "0", " ", "G",
      "M", "T">>

IntegerSamples ==
    {HExactMax, HWrapNeg, HWrapPos, HMaxInt64, HOverInt64, HMinInt64, HUnderInt64,
     HHuge, HPadded, HTwoPow32}

DateSamples ==
    {HDateSoon, HDateEarlier, HDateEpoch, HDateLeap, HDateFar, HDateAncient,
     HDateNoSuchDay, HDateTrailing, HDateLeading}

HeaderAlphabet == {"0", "1", "9", "-", "+", " ", "x"}

\* every string over HeaderAlphabet of length at most n
RECURSIVE StringsUpTo(_)
StringsUpTo(n) ==
    IF n = 0 THEN {<<>>}
    ELSE LET shorter == StringsUpTo(n - 1)
         IN  shorter \cup {Append(s, c) : s \in shorter, c \in HeaderAlphabet}

Headers == StringsUpTo(MaxHeaderLen) \cup IntegerSamples \cup DateSamples

\* 2026-11-06 12:00:00 UTC, and two instants around 12:00:10
Now1 == [day |-> DaysFromCivil(2026, 11, 6), sec |-> 43200, nsec |-> 0]
Now2 == [day |-> DaysFromCivil(2026, 11, 6), sec |-> 43209, nsec |-> 999999999]
Now3 == [day |-> DaysFromCivil(2026, 11, 6), sec |-> 43210, nsec |-> 1]

Nows == {Now1, Now2, Now3}

\* the readings of time.Now() during a call: before and after HDateSoon
DoNows == {Now1, Now3}

NoResult == [kind |-> "none"]

----------------------------------------------------------------------------
(* Requests, responses and errors of Client.do. *)

\* the retry limit of do
max429Retries == 3

StatusTooManyRequests == 429

\* a request body reader: nil, or the bytes still to be read
NilBody == [nil |-> TRUE, bytes |-> <<>>]
Reader(b) == [nil |-> FALSE, bytes |-> b]

\* characters of the string values given as bodies
BodyChars == {"<"}

RECURSIVE BodyStrings(_)
BodyStrings(n) ==
    IF n = 0 THEN {<<>>}
    ELSE LET shorter == BodyStrings(n - 1)
         IN  shorter \cup {Append(s, c) : s \in shorter, c \in BodyChars}

\* the values a caller passes as body (other than nil): JSON strings
BodyValues == BodyStrings(MaxBodyLen)

\* json.Encoder.Encode of a string value with SetEscapeHTML(false): the quoted
\* string, its characters unescaped, and a newline
Encode(val) == <<"\"">> \o val \o <<"\"", "\n">>

\* the suffixes of s: what may remain unread of a reader holding s
Suffixes(s) == {SubSeq(s, k, Len(s)) : k \in 1..(Len(s) + 1)}

TransportErrors == {"connection refused", "timeout"}

ContextErrors == {"context canceled", "context deadline exceeded"}

Statuses == {199, 200, 299, 300, 429}

\* Retry-After values of the responses a call receives (<<>>: header absent)
DoHeaders == {<<>>, <<"0">>, <<"1">>, <<"-", "1">>, <<"x">>, HDateSoon, HWrapNeg}

\* an optional value: a nil pointer or an absent JSON member, or the value held
Nil == {}
Ptr(x) == {x}
Deref(p) == CHOOSE x \in p : TRUE

\* response bodies: not JSON, or a JSON object with these members (status and
\* item_id, the members the API operations read, being optional)
NotJSON ==
    [json |-> FALSE, message |-> "", error |-> "", StatusCode |-> 0, status |-> Nil,
     item_id |-> Nil]
JSONBody(m, e, c) ==
    [json |-> TRUE, message |-> m, error |-> e, StatusCode |-> c, status |-> Nil,
     item_id |-> Nil]
APIBody(st, id) ==
    [json |-> TRUE, message |-> "", error |-> "", StatusCode |-> 0, status |-> st,
     item_id |-> id]

RespBodies == {NotJSON, JSONBody("", "", 0), JSONBody("not found", "", 0),
               JSONBody("", "gone", 999)}

NoResp == [status |-> 0, header |-> <<>>, body |-> NotJSON]

\* a 429 carries any of the Retry-After values (its body is never read); the other
\* statuses carry any of the bodies, with or without a Retry-After
Responses ==
    [status : {StatusTooManyRequests}, header : DoHeaders, body : {NotJSON}]
    \cup [status : Statuses \ {StatusTooManyRequests}, header : {<<>>, <<"1">>},
          body : RespBodies]

\* the errors do returns
NilError == [kind |-> "nil"]
APIError(code, msg, text) ==
    [kind |-> "api", StatusCode |-> code, Message |-> msg, ErrorText |-> text]
TransportError(e) == [kind |-> "transport", err |-> e]
ContextError(e) == [kind |-> "context", err |-> e]
DecodeError == [kind |-> "decode"]

\* variant: the transport's error reported as an API error
DoFailedAsAPIError(e) == APIError(0, e, "")

\* what do returns when c.httpClient.Do fails with e
DoFailed(e) == TransportError(e)

\* variant: one retry more than max429Retries
GiveUpOffByOne(retryAfter, att) == ~Positive(retryAfter) \/ att > max429Retries

\* variant: the wait is not looked at
GiveUpOnCountOnly(retryAfter, att) == att >= max429Retries

\* the test that ends the retries after a 429
GiveUp(retryAfter, att) == ~Positive(retryAfter) \/ att >= max429Retries

\* the 429 error of do
TooManyRequests(status) == APIError(status, "too many requests", "")

\* variant: StatusCode decoded from the body like the other fields
DecodeAPIErrorWithStatus(apiErr, body) ==
    IF body.json
    THEN [apiErr EXCEPT !.Message = body.message, !.ErrorText = body.error,
                        !.StatusCode = body.StatusCode]
    ELSE apiErr

\* json.Decoder.Decode into an *APIError: StatusCode is tagged json:"-"
DecodeAPIError(apiErr, body) ==
    IF body.json
    THEN [apiErr EXCEPT !.Message = body.message, !.ErrorText = body.error]
    ELSE apiErr

\* the error of a response outside 200..299 other than 429
ErrorOf(status, body) == DecodeAPIError(APIError(status, "", ""), body)

\* variant: the body is decoded whether or not an output was asked for
SuccessOfAlwaysDecoded(wantOut, body) == IF body.json THEN NilError ELSE DecodeError

\* the outcome of a 2xx response
SuccessOf(wantOut, body) ==
    IF ~wantOut THEN NilError
    ELSE IF body.json THEN NilError ELSE DecodeError

\* the zero value of the structs the API operations decode into
ZeroOut == [Status |-> "", ItemID |-> ""]

\* json.Decoder.Decode into v: the members present overwrite the fields
DecodeInto(cur, body) ==
    IF ~body.json THEN cur
    ELSE [Status |-> IF body.status = Nil THEN cur.Status ELSE Deref(body.status),
          ItemID |-> IF body.item_id = Nil THEN cur.ItemID ELSE Deref(body.item_id)]

\* variant: the body is left open
CloseBodySkipped(n) == n

\* resp.Body.Close()
CloseBody(n) == n - 1

\* variant: the body is not reset
ResetBodySkipped(gb, body, raw) == body

\* the body of the request after a wait: GetBody's reader when there is one
ResetBody(gb, body, raw) == IF gb /\ ~body.nil THEN Reader(raw.bytes) ELSE body

\* whether each case of the select of do can proceed
CtxCaseReady == ctxDone

\* variant: the timer's channel never delivers
TimerCaseNever == FALSE

TimerCaseReady == timer = "fired"

\* variant: no lower limit
IsSuccessBelow300(status) == status < 300

\* the statuses that are not errors: the negation of the test of do
IsSuccess(status) == status >= 200 /\ status < 300

----------------------------------------------------------------------------
(* The client and its configuration. *)

\* the default base URL
BaseURL ==
    <<"h", "t", "t", "p", "s", ":", "/", "/", "w", "o", "r", "k", "f", "l",
      "o", "w", "y", ".", "c", "o", "m", "/", "a", "p", "i", "/", "v", "1">>

\* the argument of the base URL test
ExampleURL ==
    <<"h", "t", "t", "p", "s", ":", "/", "/", "e", "x", "a", "m", "p", "l",
      "e", ".", "o", "r", "g", "/", "a", "p", "i", "/">>

\* characters of the enumerated SetBaseURL arguments: ordinary, slash, space
URLChars == {"a", "/", " "}

RECURSIVE URLStrings(_)
URLStrings(n) ==
    IF n = 0 THEN {<<>>}
    ELSE LET shorter == URLStrings(n - 1)
         IN  shorter \cup {Append(s, c) : s \in shorter, c \in URLChars}

URLArgs == URLStrings(MaxURLLen) \cup {ExampleURL, BaseURL}

\* strings.TrimRight(s, cutset), cutset a set of characters
RECURSIVE TrimRight(_, _)
TrimRight(s, cutset) ==
    IF s # <<>> /\ s[Len(s)] \in cutset
    THEN TrimRight(SubSeq(s, 1, Len(s) - 1), cutset)
    ELSE s

\* the local trimmedBase of SetBaseURL
trimmedBase(s) == TrimRight(TrimSpace(s), {"/"})

\* variant: an empty result is stored as it is
StoredBaseNoDefault(s) == trimmedBase(s)

\* what SetBaseURL(s) assigns to c.baseURL
StoredBase(s) == IF trimmedBase(s) = <<>> THEN BaseURL ELSE trimmedBase(s)

\* *http.Client values: nil, or a client with its Timeout in seconds
NilHTTPClient == [nil |-> TRUE, Timeout |-> 0]
HTTPClient(seconds) == [nil |-> FALSE, Timeout |-> seconds]

DefaultHTTPClient == HTTPClient(15)

\* the arguments given to SetHTTPClient
ClientArgs == {NilHTTPClient, HTTPClient(42), HTTPClient(7)}

\* variant: the argument is stored unchecked
StoredClientUnguarded(cur, hc) == hc

\* what SetHTTPClient(hc) leaves in c.httpClient, cur being its value before
StoredClient(cur, hc) == IF hc.nil THEN cur ELSE hc

\* the histories of the setters and of the exchanges: not called yet, or the
\* argument of the last call
NotCalled(zero) == [called |-> FALSE, arg |-> zero]
Called(arg) == [called |-> TRUE, arg |-> arg]

\* the keys given to NewClient
RawKeys == {<<"k">>, <<" ", "k", "2", "\t">>}

\* the client NewClient(key) returns
NewClient(key) ==
    /\ apiKey = TrimSpace(key)
    /\ baseURL = BaseURL
    /\ httpClient = DefaultHTTPClient
    /\ urlArg = NotCalled(<<>>)
    /\ hcArg = NotCalled(NilHTTPClient)
    /\ prevClient = DefaultHTTPClient
    /\ used = NotCalled(NilHTTPClient)

\* "Bearer "
Bearer == <<"B", "e", "a", "r", "e", "r", " ">>

\* strings.TrimLeft(s, cutset), cutset a set of characters
RECURSIVE TrimLeftCut(_, _)
TrimLeftCut(s, cutset) ==
    IF s # <<>> /\ Head(s) \in cutset THEN TrimLeftCut(Tail(s), cutset) ELSE s

\* c.joinURL(path), base being c.baseURL
joinURL(base, path) ==
    IF path = <<>> \/ path = <<"/">> THEN base
    ELSE base \o <<"/">> \o TrimLeftCut(path, {"/"})

\* variant: Content-Type is set on every request
RequestHeaderAlwaysTyped(key, hasBody) ==
    [Authorization |-> Ptr(Bearer \o key), Accept |-> Ptr("application/json"),
     ContentType |-> Ptr("application/json"),
     UserAgent |-> Ptr("workflowy-go/0.1 (+https://workflowy.com)")]

\* the header newRequest sets, key being c.apiKey: each name absent or with its value
RequestHeader(key, hasBody) ==
    [Authorization |-> Ptr(Bearer \o key), Accept |-> Ptr("application/json"),
     ContentType |-> IF hasBody THEN Ptr("application/json") ELSE Nil,
     UserAgent |-> Ptr("workflowy-go/0.1 (+https://workflowy.com)")]

NoRequest == [method |-> "", url |-> <<>>, header |-> [Authorization |-> Nil,
              Accept |-> Nil, ContentType |-> Nil, UserAgent |-> Nil]]

\* the request of newRequest(ctx, method, path, body) on the client
Request(method, path, hasBody) ==
    [method |-> method, url |-> joinURL(baseURL, path),
     header |-> RequestHeader(apiKey, hasBody)]

\* the path given to newRequest when it is called directly
PathNodes ==
    <<"/", "n", "o", "d", "e", "s">>

\* no API operation: newRequest and do called directly
NoOp == "none"

\* the concurrent calls
Calls == 1..NumCalls

\* a call entering do: nothing sent, attempt 0; clean while every response was
\* a 429 with a positive wait and no wait was cancelled
NewCall == [pc |-> "do", attempt |-> 0, sent |-> 0, waited |-> 0, clean |-> TRUE,
            result |-> NoResult]

InitCalls == calls = [c \in Calls |-> NewCall]

\* the client of a single call
InitClient == NewClient(<<" ", "k", " ">>)

----------------------------------------------------------------------------
(* The API operations (api.go). *)

\* the identifiers given as nodeID and as parent
NodeIDs == {<<>>, <<"a", "/">>}
ParentIDs == {<<>>, <<"n", "1">>}

\* url.PathEscape and url.QueryEscape on the characters of the identifiers
RECURSIVE PathEscape(_)
PathEscape(s) ==
    IF s = <<>> THEN <<>>
    ELSE (CASE Head(s) = "/" -> <<"%", "2", "F">>
            [] Head(s) = " " -> <<"%", "2", "0">>
            [] OTHER -> <<Head(s)>>) \o PathEscape(Tail(s))

RECURSIVE QueryEscape(_)
QueryEscape(s) ==
    IF s = <<>> THEN <<>>
    ELSE (CASE Head(s) = "/" -> <<"%", "2", "F">>
            [] Head(s) = " " -> <<"+">>
            [] OTHER -> <<Head(s)>>) \o QueryEscape(Tail(s))

\* the literal an operation appends to its path
PathOf(o) ==
    CASE o = "MoveNode" -> <<"/", "m", "o", "v", "e">>
      [] o = "CompleteNode" -> <<"/", "c", "o", "m", "p", "l", "e", "t", "e">>
      [] o = "UncompleteNode" ->
            <<"/", "u", "n", "c", "o", "m", "p", "l", "e", "t", "e">>
      [] o = "ListTargets" -> <<"/", "t", "a", "r", "g", "e", "t", "s">>
      [] o = "ExportAll" ->
            <<"/", "n", "o", "d", "e", "s", "-", "e", "x", "p", "o", "r", "t">>
      [] o = "ListNodes" ->
            <<"?", "p", "a", "r", "e", "n", "t", "_", "i", "d", "=">>

\* the inputs of CreateNode, UpdateNode and MoveNode: a pointer is nil or points
\* to a string, to LayoutModeTodo, to PositionTop
Creates ==
    [ParentID : ParentIDs, Name : BodyValues, Note : {Nil, Ptr(<<>>)},
     LayoutMode : {Nil}, Position : {Nil}]
Updates ==
    [Name : {Nil} \cup {Ptr(x) : x \in BodyValues},
     Note : {Nil} \cup {Ptr(x) : x \in BodyValues},
     LayoutMode : {Nil, Ptr(<<"t", "o", "d", "o">>)}]
Moves == [ParentID : ParentIDs, Position : {Nil, Ptr(<<"t", "o", "p">>)}]

\* a request body is a sequence of chunks: the braces, each member with its name
\* and its string value (unescaped: SetEscapeHTML(false)), the final newline
Member(name, val) == <<name, val>>

\* a member tagged omitempty, p a pointer: left out when p is nil
OptMember(name, p) == IF p = Nil THEN <<>> ELSE <<Member(name, Deref(p))>>

\* variant: omitempty taken as "left out when the string pointed to is empty"
OptMemberByValue(name, p) ==
    IF p = Nil \/ Deref(p) = <<>> THEN <<>> ELSE <<Member(name, Deref(p))>>

\* a string member tagged omitempty: left out when the string is empty
OptString(name, val) == IF val = <<>> THEN <<>> ELSE <<Member(name, val)>>

\* json.Encoder.Encode of a struct: its members in field order and a newline
Object(members) == << <<"{">> >> \o members \o << <<"}">>, <<"\n">> >>

\* variant: the pointers' values decide
EncodeUpdateByValue(in) ==
    Object(OptMemberByValue("name", in.Name) \o OptMemberByValue("note", in.Note)
           \o OptMemberByValue("layoutMode", in.LayoutMode))

EncodeUpdate(in) ==
    Object(OptMember("name", in.Name) \o OptMember("note", in.Note)
           \o OptMember("layoutMode", in.LayoutMode))

EncodeCreate(in) ==
    Object(OptString("parent_id", in.ParentID) \o <<Member("name", in.Name)>>
           \o OptMember("note", in.Note) \o OptMember("layoutMode", in.LayoutMode)
           \o OptMember("position", in.Position))

EncodeMove(in) ==
    Object(<<Member("parent_id", in.ParentID)>> \o OptMember("position", in.Position))

\* the responses an API operation receives
APIResponses ==
    [status : {StatusTooManyRequests}, header : {<<"0">>, <<"1">>}, body : {NotJSON}]
    \cup [status : {200}, header : {<<>>},
          body : {NotJSON, APIBody(Nil, Nil), APIBody(Ptr("ok"), Nil),
                  APIBody(Nil, Ptr("")), APIBody(Ptr("error"), Ptr("id1")),
                  APIBody(Ptr("ok"), Ptr("id1"))}]
    \cup [status : {404}, header : {<<>>},
          body : {NotJSON, JSONBody("not found", "", 0)}]

\* what the transport may answer to the call of o
ResponsesOf(o) == IF o = NoOp THEN Responses ELSE APIResponses

\* the errors the operations make themselves
ValidationError(msg) == [kind |-> "validation", msg |-> msg]
UnexpectedStatus(st) == [kind |-> "unexpected status", status |-> st]
EmptyItemID == [kind |-> "empty item_id"]

\* what an operation returns: its error and, for CreateNode, the identifier
Return(err, val) == [err |-> err, val |-> val]

\* variant: nothing is required
IsEmptyNever(s) == FALSE

\* s == "" for the identifiers and names an operation requires
IsEmpty(s) == s = <<>>

\* variant: an empty status passes too
StatusOKOrEmpty(st) == st \in {"ok", ""}

\* status.Status == "ok"
StatusOK(st) == st = "ok"

\* variant: any identifier is accepted
ItemIDMissingNever(id) == FALSE

\* resp.ItemID == ""
ItemIDMissing(id) == id = ""

\* the operations that decode a statusResponse
StatusChecked == {"UpdateNode", "MoveNode", "CompleteNode", "UncompleteNode"}

\* what operation o returns once do has returned err, decoded being what do decoded
Returned(o, err, decoded) ==
    IF err # NilError THEN Return(err, "")
    ELSE IF o \in StatusChecked
    THEN IF StatusOK(decoded.Status) THEN Return(NilError, "")
         ELSE Return(UnexpectedStatus(decoded.Status), "")
    ELSE IF o = "CreateNode"
    THEN IF ItemIDMissing(decoded.ItemID) THEN Return(EmptyItemID, "")
         ELSE Return(NilError, decoded.ItemID)
    ELSE Return(NilError, "")

----------------------------------------------------------------------------
(* The call: newRequest, then do. *)

InitParse == ph = <<>> /\ pnow = Now1 /\ pres = NoResult

InitDo ==
    /\ pc = "new"
    /\ v = FALSE
    /\ rawBody = NilBody
    /\ reqBody = NilBody
    /\ getBody = FALSE
    /\ attempt = 0
    /\ resp = NoResp
    /\ open = 0
    /\ ctxDone = FALSE
    /\ ctxErr = "nil"
    /\ timer = "idle"
    /\ result = NoResult
    /\ sent = <<>>
    /\ rcvd = <<>>
    /\ waits = <<>>
    /\ cancelAt = -1
    /\ req = NoRequest
    /\ out = ZeroOut
    /\ sentReq = <<>>
    /\ op = NoOp
    /\ opIn = <<>>
    /\ opOut = NoResult

Init == InitDo /\ InitParse /\ InitClient /\ InitCalls

\* newRequest(ctx, method, path, nil), then do(req, v)
NewRequestNoBody ==
    /\ pc = "new"
    /\ \E wantOut \in BOOLEAN : v' = wantOut
    /\ rawBody' = NilBody
    /\ reqBody' = NilBody
    /\ getBody' = FALSE
    /\ req' = Request("GET", PathNodes, FALSE)
    /\ pc' = "do"
    /\ UNCHANGED <<attempt, resp, open, ctxDone, ctxErr, timer, result, sent, rcvd,
                   waits, cancelAt, out, sentReq>>
    /\ UNCHANGED <<parseVars, clientVars, opVars, concVars>>

\* newRequest(ctx, method, path, body) with a body, then do(req, v)
NewRequestWithBody ==
    /\ pc = "new"
    /\ \E wantOut \in BOOLEAN : v' = wantOut
    /\ \E val \in BodyValues :
          /\ rawBody' = Reader(Encode(val))
          /\ reqBody' = Reader(Encode(val))
    /\ getBody' = TRUE
    /\ req' = Request("POST", PathNodes, TRUE)
    /\ pc' = "do"
    /\ UNCHANGED <<attempt, resp, open, ctxDone, ctxErr, timer, result, sent, rcvd,
                   waits, cancelAt, out, sentReq>>
    /\ UNCHANGED <<parseVars, clientVars, opVars, concVars>>

\* what the transport leaves of the request body: it reads any part of it
AfterSend(body) ==
    IF body.nil THEN {body} ELSE {Reader(s) : s \in Suffixes(body.bytes)}

\* c.httpClient.Do(req) returns an error: do returns it
SendFails ==
    /\ pc = "do"
    /\ \E e \in TransportErrors :
          /\ result' = DoFailed(e)
          /\ rcvd' = Append(rcvd, [kind |-> "err", err |-> e, status |-> 0,
                                   header |-> <<>>, handled |-> TRUE, wait |-> Zero64,
                                   body |-> NotJSON])
    /\ sent' = Append(sent, reqBody)
    /\ sentReq' = Append(sentReq, req)
    /\ reqBody' \in AfterSend(reqBody)
    /\ pc' = "done"
    /\ UNCHANGED <<v, rawBody, getBody, attempt, resp, open, ctxDone, ctxErr, timer,
                   waits, cancelAt, req, out>>
    /\ UNCHANGED <<parseVars, clientVars, opVars, concVars>>

\* c.httpClient.Do(req) returns a response, its body open
SendAnswered ==
    /\ pc = "do"
    /\ \E r \in ResponsesOf(op) :
          /\ resp' = r
          /\ rcvd' = Append(rcvd, [kind |-> "resp", err |-> "", status |-> r.status,
                                   header |-> r.header, handled |-> FALSE,
                                   wait |-> Zero64, body |-> r.body])
    /\ sent' = Append(sent, reqBody)
    /\ sentReq' = Append(sentReq, req)
    /\ reqBody' \in AfterSend(reqBody)
    /\ open' = open + 1
    /\ pc' = "resp"
    /\ UNCHANGED <<v, rawBody, getBody, attempt, ctxDone, ctxErr, timer, result,
                   waits, cancelAt, req, out>>
    /\ UNCHANGED <<parseVars, clientVars, opVars, concVars>>

\* the rcvd history with the last response marked handled, w its parsed wait
Handled(w) == [rcvd EXCEPT ![Len(rcvd)].handled = TRUE, ![Len(rcvd)].wait = w]

\* the 429 branch up to the return or the select; now is time.Now()
Handle429 ==
    /\ pc = "resp"
    /\ resp.status = StatusTooManyRequests
    /\ \E now \in DoNows :
          \E retryAfter \in {parseRetryAfter(resp.header, now)} :
              /\ rcvd' = Handled(retryAfter)
              /\ IF GiveUp(retryAfter, attempt)
                 THEN /\ result' = TooManyRequests(resp.status)
                      /\ pc' = "done"
                      /\ UNCHANGED <<timer, waits>>
                 ELSE /\ pc' = "wait"
                      /\ timer' = "armed"
                      /\ waits' = Append(waits, retryAfter)
                      /\ UNCHANGED result
    /\ open' = CloseBody(open)
    /\ resp' = NoResp
    /\ UNCHANGED <<v, rawBody, reqBody, getBody, attempt, ctxDone, ctxErr, sent,
                   cancelAt>>
    /\ UNCHANGED <<req, out, sentReq>>
    /\ UNCHANGED <<parseVars, clientVars, opVars, concVars>>

\* the branch of a status outside 200..299 other than 429
HandleError ==
    /\ pc = "resp"
    /\ resp.status # StatusTooManyRequests
    /\ ~IsSuccess(resp.status)
    /\ result' = ErrorOf(resp.status, resp.body)
    /\ open' = CloseBody(open)
    /\ rcvd' = Handled(Zero64)
    /\ resp' = NoResp
    /\ pc' = "done"
    /\ UNCHANGED <<v, rawBody, reqBody, getBody, attempt, ctxDone, ctxErr, timer,
                   sent, waits, cancelAt>>
    /\ UNCHANGED <<req, out, sentReq>>
    /\ UNCHANGED <<parseVars, clientVars, opVars, concVars>>

\* a 2xx response: no output wanted, or the body decoded into v
HandleSuccess ==
    /\ pc = "resp"
    /\ IsSuccess(resp.status)
    /\ result' = SuccessOf(v, resp.body)
    /\ open' = CloseBody(open)
    /\ rcvd' = Handled(Zero64)
    /\ resp' = NoResp
    /\ pc' = "done"
    /\ UNCHANGED <<v, rawBody, reqBody, getBody, attempt, ctxDone, ctxErr, timer,
                   sent, waits, cancelAt>>
    /\ out' = IF v THEN DecodeInto(out, resp.body) ELSE out
    /\ UNCHANGED <<req, sentReq>>
    /\ UNCHANGED <<parseVars, clientVars, opVars, concVars>>

\* the caller cancels the context, or its deadline passes, while the call runs
CtxCancel ==
    /\ pc \notin {"done", "returned"}
    /\ ~ctxDone
    /\ ctxDone' = TRUE
    /\ \E e \in ContextErrors : ctxErr' = e
    /\ cancelAt' = IF pc = "wait" THEN Len(sent) ELSE cancelAt
    /\ UNCHANGED <<pc, v, rawBody, reqBody, getBody, attempt, resp, open, timer,
                   result, sent, rcvd, waits>>
    /\ UNCHANGED <<req, out, sentReq>>
    /\ UNCHANGED <<parseVars, clientVars, opVars, concVars>>

\* the timer of time.After(retryAfter) fires
TimerFires ==
    /\ pc = "wait"
    /\ timer = "armed"
    /\ timer' = "fired"
    /\ UNCHANGED <<pc, v, rawBody, reqBody, getBody, attempt, resp, open, ctxDone,
                   ctxErr, result, sent, rcvd, waits, cancelAt>>
    /\ UNCHANGED <<req, out, sentReq>>
    /\ UNCHANGED <<parseVars, clientVars, opVars, concVars>>

\* select takes case <-req.Context().Done()
WaitCancelled ==
    /\ pc = "wait"
    /\ CtxCaseReady
    /\ result' = ContextError(ctxErr)
    /\ pc' = "done"
    /\ UNCHANGED <<v, rawBody, reqBody, getBody, attempt, resp, open, ctxDone,
                   ctxErr, timer, sent, rcvd, waits, cancelAt>>
    /\ UNCHANGED <<req, out, sentReq>>
    /\ UNCHANGED <<parseVars, clientVars, opVars, concVars>>

\* select takes case <-time.After(retryAfter): the body is reset and the loop continues
WaitElapsed ==
    /\ pc = "wait"
    /\ TimerCaseReady
    /\ reqBody' = ResetBody(getBody, reqBody, rawBody)
    /\ attempt' = attempt + 1
    /\ timer' = "idle"
    /\ pc' = "do"
    /\ UNCHANGED <<v, rawBody, getBody, resp, open, ctxDone, ctxErr, result, sent,
                   rcvd, waits, cancelAt>>
    /\ UNCHANGED <<req, out, sentReq>>
    /\ UNCHANGED <<parseVars, clientVars, opVars, concVars>>

Next ==
    \/ NewRequestNoBody
    \/ NewRequestWithBody
    \/ SendFails
    \/ SendAnswered
    \/ Handle429
    \/ HandleError
    \/ HandleSuccess
    \/ CtxCancel
    \/ TimerFires
    \/ WaitCancelled
    \/ WaitElapsed

Spec == Init /\ [][Next]_vars

\* the steps of do itself: an exchange returns, a response is handled, the timer
\* of a wait fires, the select takes a ready case
DoStep ==
    \/ SendFails
    \/ SendAnswered
    \/ Handle429
    \/ HandleError
    \/ HandleSuccess
    \/ TimerFires
    \/ WaitCancelled
    \/ WaitElapsed

\* one call of do on a request without body, and the caller's cancellation
NextLive ==
    \/ NewRequestNoBody
    \/ SendFails
    \/ SendAnswered
    \/ Handle429
    \/ HandleError
    \/ HandleSuccess
    \/ CtxCancel
    \/ TimerFires
    \/ WaitCancelled
    \/ WaitElapsed

\* the call under a scheduler that lets do run: exchanges return and waits end
SpecLive == Init /\ [][NextLive]_vars /\ WF_vars(DoStep)

----------------------------------------------------------------------------
(* parseRetryAfter run alone, on every header and reference time. *)

Parsed(d) == [kind |-> "duration", d |-> d]

InitParseRun ==
    /\ InitDo
    /\ InitClient
    /\ InitCalls
    /\ ph \in Headers
    /\ pnow \in Nows
    /\ pres = NoResult

ParseStep ==
    /\ pres = NoResult
    /\ pres' = Parsed(parseRetryAfter(ph, pnow))
    /\ UNCHANGED <<ph, pnow>>
    /\ UNCHANGED <<doVars, clientVars, concVars>>

SpecParse == InitParseRun /\ [][ParseStep]_vars

----------------------------------------------------------------------------
(* The client under its setters. *)

InitConfig ==
    /\ InitDo
    /\ InitParse
    /\ InitCalls
    /\ \E key \in RawKeys : NewClient(key)

\* variant: a request built earlier follows the client's base URL
SetBaseURLRedirecting ==
    /\ \E s \in URLArgs :
          /\ baseURL' = StoredBase(s)
          /\ urlArg' = Called(s)
          /\ req' = IF req = NoRequest THEN req
                    ELSE [req EXCEPT !.url = joinURL(StoredBase(s), PathNodes)]
    /\ UNCHANGED <<apiKey, httpClient, hcArg, prevClient, used>>
    /\ UNCHANGED <<pc, v, rawBody, reqBody, getBody, attempt, resp, open, ctxDone,
                   ctxErr, timer, result, sent, rcvd, waits, cancelAt, out, sentReq>>
    /\ UNCHANGED <<opVars, parseVars, concVars>>

\* c.SetBaseURL(s)
SetBaseURL ==
    /\ \E s \in URLArgs :
          /\ baseURL' = StoredBase(s)
          /\ urlArg' = Called(s)
    /\ UNCHANGED <<apiKey, httpClient, hcArg, prevClient, used>>
    /\ UNCHANGED <<doVars, parseVars, concVars>>

\* variant: the client is replaced by one that holds only the transport
SetHTTPClientResetting ==
    /\ \E hc \in ClientArgs :
          /\ httpClient' = StoredClient(httpClient, hc)
          /\ hcArg' = Called(hc)
    /\ prevClient' = httpClient
    /\ used' = NotCalled(NilHTTPClient)
    /\ apiKey' = <<>>
    /\ baseURL' = <<>>
    /\ UNCHANGED urlArg
    /\ UNCHANGED <<doVars, parseVars, concVars>>

\* c.SetHTTPClient(hc)
SetHTTPClient ==
    /\ \E hc \in ClientArgs :
          /\ httpClient' = StoredClient(httpClient, hc)
          /\ hcArg' = Called(hc)
    /\ prevClient' = httpClient
    /\ used' = NotCalled(NilHTTPClient)
    /\ UNCHANGED <<apiKey, baseURL, urlArg>>
    /\ UNCHANGED <<doVars, parseVars, concVars>>

\* an exchange of a call on this client: c.httpClient.Do(req)
Exchange ==
    /\ used' = Called(httpClient)
    /\ UNCHANGED <<apiKey, baseURL, httpClient, urlArg, hcArg, prevClient>>
    /\ UNCHANGED <<doVars, parseVars, concVars>>

NextConfig ==
    \/ SetBaseURL
    \/ SetHTTPClient
    \/ Exchange

SpecConfig == InitConfig /\ [][NextConfig]_vars

\* the arguments of the SetBaseURL calls made while a call is under way
MeanwhileURLs == {ExampleURL, <<>>}

\* c.SetBaseURL(s) called once from another goroutine, before newRequest builds
\* the request or while do waits between two attempts
SetBaseURLMeanwhile ==
    /\ pc \in {"new", "wait"}
    /\ ~urlArg.called
    /\ SetBaseURL
    /\ urlArg'.arg \in MeanwhileURLs

\* one call of newRequest and do, and a SetBaseURL before or during it
NextMeanwhile ==
    \/ NewRequestNoBody
    \/ SetBaseURLMeanwhile
    \/ SendFails
    \/ SendAnswered
    \/ Handle429
    \/ HandleError
    \/ HandleSuccess
    \/ CtxCancel
    \/ TimerFires
    \/ WaitCancelled
    \/ WaitElapsed

SpecMeanwhile == Init /\ [][NextMeanwhile]_vars

----------------------------------------------------------------------------
(* The API operations as actions. *)

\* an operation returns an error before newRequest
Reject(name, args, msg) ==
    /\ op' = name
    /\ opIn' = args
    /\ opOut' = Return(ValidationError(msg), "")
    /\ pc' = "returned"
    /\ UNCHANGED <<v, rawBody, reqBody, getBody, req>>

\* an operation calls newRequest(ctx, method, path, body) and then do(req, v)
Begin(name, args, method, path, body, wantOut) ==
    /\ op' = name
    /\ opIn' = args
    /\ v' = wantOut
    /\ rawBody' = body
    /\ reqBody' = body
    /\ getBody' = ~body.nil
    /\ req' = Request(method, path, ~body.nil)
    /\ pc' = "do"
    /\ UNCHANGED opOut

\* what the entry of an operation leaves alone
Entry ==
    /\ pc = "new"
    /\ UNCHANGED <<attempt, resp, open, ctxDone, ctxErr, timer, result, sent, rcvd,
                   waits, cancelAt, out, sentReq>>
    /\ UNCHANGED <<parseVars, clientVars, concVars>>

GetNode ==
    /\ Entry
    /\ \E nodeID \in NodeIDs :
          IF IsEmpty(nodeID)
          THEN Reject("GetNode", [nodeID |-> nodeID], "nodeID is required")
          ELSE Begin("GetNode", [nodeID |-> nodeID], "GET",
                     PathNodes \o <<"/">> \o PathEscape(nodeID), NilBody, TRUE)

ListNodes ==
    /\ Entry
    /\ \E parentID \in ParentIDs :
          Begin("ListNodes", [parentID |-> parentID], "GET",
                IF parentID # <<>>
                THEN PathNodes \o PathOf("ListNodes") \o QueryEscape(parentID)
                ELSE PathNodes,
                NilBody, TRUE)

CreateNode ==
    /\ Entry
    /\ \E in \in Creates :
          IF IsEmpty(in.Name)
          THEN Reject("CreateNode", [in |-> in], "name is required")
          ELSE Begin("CreateNode", [in |-> in], "POST", PathNodes,
                     Reader(EncodeCreate(in)), TRUE)

UpdateNode ==
    /\ Entry
    /\ \E nodeID \in NodeIDs, in \in Updates :
          IF IsEmpty(nodeID)
          THEN Reject("UpdateNode", [nodeID |-> nodeID, in |-> in], "nodeID is required")
          ELSE Begin("UpdateNode", [nodeID |-> nodeID, in |-> in], "POST",
                     PathNodes \o <<"/">> \o PathEscape(nodeID),
                     Reader(EncodeUpdate(in)), TRUE)

MoveNode ==
    /\ Entry
    /\ \E nodeID \in NodeIDs, in \in Moves :
          IF IsEmpty(nodeID)
          THEN Reject("MoveNode", [nodeID |-> nodeID, in |-> in], "nodeID is required")
          ELSE IF IsEmpty(in.ParentID)
          THEN Reject("MoveNode", [nodeID |-> nodeID, in |-> in], "parentID is required")
          ELSE Begin("MoveNode", [nodeID |-> nodeID, in |-> in], "POST",
                     PathNodes \o <<"/">> \o PathEscape(nodeID) \o PathOf("MoveNode"),
                     Reader(EncodeMove(in)), TRUE)

DeleteNode ==
    /\ Entry
    /\ \E nodeID \in NodeIDs :
          IF IsEmpty(nodeID)
          THEN Reject("DeleteNode", [nodeID |-> nodeID], "nodeID is required")
          ELSE Begin("DeleteNode", [nodeID |-> nodeID], "DELETE",
                     PathNodes \o <<"/">> \o PathEscape(nodeID), NilBody, FALSE)

CompleteNode ==
    /\ Entry
    /\ \E nodeID \in NodeIDs :
          IF IsEmpty(nodeID)
          THEN Reject("CompleteNode", [nodeID |-> nodeID], "nodeID is required")
          ELSE Begin("CompleteNode", [nodeID |-> nodeID], "POST",
                     PathNodes \o <<"/">> \o PathEscape(nodeID) \o PathOf("CompleteNode"),
                     NilBody, TRUE)

UncompleteNode ==
    /\ Entry
    /\ \E nodeID \in NodeIDs :
          IF IsEmpty(nodeID)
          THEN Reject("UncompleteNode", [nodeID |-> nodeID], "nodeID is required")
          ELSE Begin("UncompleteNode", [nodeID |-> nodeID], "POST",
                     PathNodes \o <<"/">> \o PathEscape(nodeID) \o PathOf("UncompleteNode"),
                     NilBody, TRUE)

ListTargets ==
    /\ Entry
    /\ Begin("ListTargets", <<>>, "GET", PathOf("ListTargets"), NilBody, TRUE)

ExportAll ==
    /\ Entry
    /\ Begin("ExportAll", <<>>, "GET", PathOf("ExportAll"), NilBody, TRUE)

\* do has returned: the operation checks what was decoded and returns
OpReturn ==
    /\ pc = "done"
    /\ op # NoOp
    /\ opOut' = Returned(op, result, out)
    /\ pc' = "returned"
    /\ UNCHANGED <<v, rawBody, reqBody, getBody, attempt, resp, open, ctxDone, ctxErr,
                   timer, result, sent, rcvd, waits, cancelAt, req, out, sentReq, op,
                   opIn>>
    /\ UNCHANGED <<parseVars, clientVars, concVars>>

NextAPI ==
    \/ GetNode
    \/ ListNodes
    \/ CreateNode
    \/ UpdateNode
    \/ MoveNode
    \/ DeleteNode
    \/ CompleteNode
    \/ UncompleteNode
    \/ ListTargets
    \/ ExportAll
    \/ OpReturn
    \/ SendFails
    \/ SendAnswered
    \/ Handle429
    \/ HandleError
    \/ HandleSuccess
    \/ CtxCancel
    \/ TimerFires
    \/ WaitCancelled
    \/ WaitElapsed

SpecAPI == InitConfig /\ [][NextAPI]_vars

\* the arguments of the SetHTTPClient calls made while a call is under way
MeanwhileClients == {NilHTTPClient, HTTPClient(7)}

\* c.SetHTTPClient(hc) called once from another goroutine, while the do of an
\* operation waits between two attempts; one setter is called during a call
SetHTTPClientMeanwhile ==
    /\ pc = "wait"
    /\ ~hcArg.called
    /\ ~urlArg.called
    /\ SetHTTPClient
    /\ hcArg'.arg \in MeanwhileClients

\* c.SetBaseURL(s) called once from another goroutine, while the do of an
\* operation waits between two attempts; one setter is called during a call
SetBaseURLWaiting ==
    /\ pc = "wait"
    /\ ~hcArg.called
    /\ SetBaseURLMeanwhile

\* one API operation on the client, and the setters called during it
NextClient ==
    \/ SetBaseURLWaiting
    \/ SetHTTPClientMeanwhile
    \/ GetNode
    \/ ListNodes
    \/ CreateNode
    \/ UpdateNode
    \/ MoveNode
    \/ DeleteNode
    \/ CompleteNode
    \/ UncompleteNode
    \/ ListTargets
    \/ ExportAll
    \/ OpReturn
    \/ SendFails
    \/ SendAnswered
    \/ Handle429
    \/ HandleError
    \/ HandleSuccess
    \/ CtxCancel
    \/ TimerFires
    \/ WaitCancelled
    \/ WaitElapsed

SpecClient == Init /\ [][NextClient]_vars

----------------------------------------------------------------------------
(* Several calls of do on one client. *)

\* the Retry-After values the concurrent calls receive
ConcHeaders == {<<"0">>, <<"1">>}

\* call c has returned err
Finish(cs, c, err, stillClean) ==
    [cs EXCEPT ![c].pc = "done", ![c].result = err, ![c].clean = stillClean]

\* variant: one counter for all the calls of the client
NextAttemptShared(cs, c) ==
    [x \in DOMAIN cs |-> IF x = c THEN [cs[x] EXCEPT !.attempt = @ + 1, !.pc = "do",
                                                     !.waited = @ + 1]
                         ELSE [cs[x] EXCEPT !.attempt = @ + 1]]

\* attempt++ of the loop of call c after its wait: attempt is a local of do
NextAttempt(cs, c) ==
    [cs EXCEPT ![c].attempt = @ + 1, ![c].pc = "do", ![c].waited = @ + 1]

\* c.httpClient.Do(req) of call c returns an error
ConcSendFails ==
    /\ \E c \in Calls, e \in TransportErrors :
          /\ calls[c].pc = "do"
          /\ calls' = Finish([calls EXCEPT ![c].sent = @ + 1], c, DoFailed(e), FALSE)
    /\ UNCHANGED <<doVars, parseVars, clientVars>>

\* call c is answered 429: it gives up or begins its wait
ConcAnswered429 ==
    /\ \E c \in Calls, h \in ConcHeaders :
          /\ calls[c].pc = "do"
          /\ LET retryAfter == parseRetryAfter(h, Now1)
                 cs == [calls EXCEPT ![c].sent = @ + 1]
             IN  calls' = IF GiveUp(retryAfter, calls[c].attempt)
                          THEN Finish(cs, c, TooManyRequests(StatusTooManyRequests),
                                      calls[c].clean /\ Positive(retryAfter))
                          ELSE [cs EXCEPT ![c].pc = "wait"]
    /\ UNCHANGED <<doVars, parseVars, clientVars>>

\* call c is answered with another status
ConcAnsweredOther ==
    /\ \E c \in Calls, status \in {200, 404} :
          /\ calls[c].pc = "do"
          /\ calls' = Finish([calls EXCEPT ![c].sent = @ + 1], c,
                             IF IsSuccess(status) THEN NilError
                             ELSE ErrorOf(status, NotJSON), FALSE)
    /\ UNCHANGED <<doVars, parseVars, clientVars>>

\* the select of call c takes case <-req.Context().Done()
ConcWaitCancelled ==
    /\ \E c \in Calls, e \in ContextErrors :
          /\ calls[c].pc = "wait"
          /\ calls' = Finish(calls, c, ContextError(e), FALSE)
    /\ UNCHANGED <<doVars, parseVars, clientVars>>

\* the select of call c takes case <-time.After(retryAfter)
ConcWaitElapsed ==
    /\ \E c \in Calls :
          /\ calls[c].pc = "wait"
          /\ calls' = NextAttempt(calls, c)
    /\ UNCHANGED <<doVars, parseVars, clientVars>>

NextConc ==
    \/ ConcSendFails
    \/ ConcAnswered429
    \/ ConcAnsweredOther
    \/ ConcWaitCancelled
    \/ ConcWaitElapsed

SpecConc == Init /\ [][NextConc]_vars

----------------------------------------------------------------------------
(* Properties of Client.do. *)

Is429(r) == r.kind = "resp" /\ r.status = 429

\* C1: one call of do sends the request at most 4 times; when every response was a
\* 429 whose Retry-After parsed to a positive wait and the context was never
\* cancelled, do has sent exactly 4 requests and returns an APIError with status 429.
C1_AtMostFourSends ==
    /\ Len(sent) <= 4
    /\ ( /\ pc = "done"
         /\ ~ctxDone
         /\ \A i \in 1..Len(rcvd) : Is429(rcvd[i]) /\ Positive(rcvd[i].wait) )
       => /\ Len(sent) = 4
          /\ result.kind = "api"
          /\ result.StatusCode = 429

C1_Witness ==
    /\ pc = "done"
    /\ ~ctxDone
    /\ Len(sent) = 4
    /\ \A i \in 1..Len(rcvd) : Is429(rcvd[i]) /\ rcvd[i].header = <<"1">>
    /\ result.kind = "api"

\* C2: once the context is cancelled during a retry wait, do sends no further
\* request and returns exactly the context's error.
C2_CancelDuringWaitWins ==
    cancelAt # -1 =>
        /\ Len(sent) = cancelAt
        /\ pc = "done" => result = ContextError(ctxErr)

\* C3: a 429 whose Retry-After parses to a non-positive wait (absent, "0", negative,
\* unparseable, a past date) ends the call with an APIError 429, with no wait and no
\* resend, at any attempt; a transport always answering 429 with "0" is asked once.
C3_NonPositiveWaitGivesUp ==
    /\ \A i \in 1..Len(rcvd) :
          (Is429(rcvd[i]) /\ rcvd[i].handled) =>
              /\ rcvd[i].header \in {<<>>, <<"0">>, <<"-", "1">>, <<"x">>}
                    => ~Positive(rcvd[i].wait)
              /\ ~Positive(rcvd[i].wait) =>
                    /\ i = Len(rcvd)
                    /\ pc = "done"
                    /\ result.kind = "api"
                    /\ result.StatusCode = 429
                    /\ Len(sent) = i
                    /\ Len(waits) = i - 1
    /\ ( /\ pc = "done"
         /\ \A i \in 1..Len(rcvd) : Is429(rcvd[i]) /\ rcvd[i].header = <<"0">> )
       => Len(sent) = 1

\* a past HTTP-date gives up on the third attempt
C3_Witness ==
    /\ pc = "done"
    /\ Len(rcvd) = 3
    /\ Is429(rcvd[3])
    /\ rcvd[3].header = HDateSoon
    /\ ~Positive(rcvd[3].wait)
    /\ result.kind = "api"

\* C4: every send of a call whose request was built with a body offers the transport
\* the complete body, the bytes serialized by newRequest.
C4_BodyReplayed ==
    ~rawBody.nil => \A i \in 1..Len(sent) : sent[i] = rawBody

\* a resend after the transport had read the whole body
C4_Witness ==
    /\ ~rawBody.nil
    /\ Len(sent) >= 2
    /\ reqBody.bytes = <<>>

\* C5: a transport error on any attempt is what do returns, at once: it is the last
\* exchange, no wait follows it and nothing is sent after it.
C5_TransportErrorReturned ==
    \A i \in 1..Len(rcvd) :
        rcvd[i].kind = "err" =>
            /\ i = Len(rcvd)
            /\ pc = "done"
            /\ result = TransportError(rcvd[i].err)
            /\ Len(sent) = i
            /\ Len(waits) = i - 1

\* the transport fails on the attempt that follows a wait
C5_Witness ==
    /\ Len(rcvd) = 2
    /\ rcvd[2].kind = "err"
    /\ pc = "done"

\* C6: a response whose status is outside 200..299 and not 429 ends the call with no
\* wait and no resend; do returns an APIError whose StatusCode is that status,
\* whatever the body holds.
C6_ErrorStatusReported ==
    \A i \in 1..Len(rcvd) :
        ( /\ rcvd[i].kind = "resp"
          /\ rcvd[i].handled
          /\ rcvd[i].status # 429
          /\ (rcvd[i].status < 200 \/ rcvd[i].status > 299) ) =>
            /\ i = Len(rcvd)
            /\ pc = "done"
            /\ result.kind = "api"
            /\ result.StatusCode = rcvd[i].status
            /\ Len(sent) = i
            /\ Len(waits) = i - 1

\* an error body that carries its own StatusCode member
C6_Witness ==
    /\ pc = "done"
    /\ result.kind = "api"
    /\ result.StatusCode = 300
    /\ result.ErrorText = "gone"

\* C7: do returns nil only when the last response was a 2xx and every earlier one a
\* 429 with a positive wait (so exactly one 2xx was received); without any 2xx
\* response the error is not nil.
C7_NilOnlyAfterSuccess ==
    pc = "done" =>
        LET n == Len(rcvd)
            is2xx(r) == r.kind = "resp" /\ r.status >= 200 /\ r.status <= 299
        IN  /\ result = NilError =>
                /\ n >= 1
                /\ is2xx(rcvd[n])
                /\ \A i \in 1..(n - 1) : Is429(rcvd[i]) /\ Positive(rcvd[i].wait)
            /\ (~\E i \in 1..n : is2xx(rcvd[i])) => result # NilError

\* success on the third attempt
C7_Witness ==
    /\ pc = "done"
    /\ result = NilError
    /\ Len(rcvd) = 3

\* C8: at most one response body is open at any moment, and none is open while do
\* sends, waits or has returned.
C8_BodiesClosed ==
    /\ open <= 1
    /\ pc \in {"do", "wait", "done"} => open = 0
    /\ pc = "resp" => open = 1

\* a call waiting after its second 429
C8_Witness ==
    /\ pc = "wait"
    /\ Len(rcvd) = 2
    /\ open = 0

----------------------------------------------------------------------------
(* Properties of parseRetryAfter. *)

\* the decimal text of a non-negative integer: digits, no sign, no leading zero
DecimalText(s) == s # <<>> /\ AllDigits(s) /\ (Len(s) = 1 \/ Head(s) # "0")

RECURSIVE WideValue(_, _)
\* the number a run of digits denotes, in W128 limbs, acc the value so far
WideValue(s, acc) ==
    IF s = <<>> THEN acc
    ELSE WideValue(Tail(s), AddL(MulSmall(acc, 10), FromInt(DigitVal(Head(s)), W128)))

NumberOf(s) == WideValue(s, FromInt(0, W128))

FitsInt64(x) == ~IsNegL(x) /\ ~LessS(MaxInt64(W128), x)

\* an optionally signed run of digits, spaces around it allowed
IntegerText(s) ==
    LET t == TrimSpace(s)
    IN  /\ t # <<>>
        /\ LET digits == IF Head(t) \in {"+", "-"} THEN Tail(t) ELSE t
           IN  digits # <<>> /\ AllDigits(digits)

NegativeText(s) == IntegerText(s) /\ Head(TrimSpace(s)) = "-"

DateText(s) == ParseTime(s).err = "nil"

\* t is at or before u
TimeLE(t, u) ==
    \/ t.day < u.day
    \/ t.day = u.day /\ t.sec < u.sec
    \/ t.day = u.day /\ t.sec = u.sec /\ t.nsec <= u.nsec

\* C9: for every non-negative integer N that fits an int64, parseRetryAfter of the
\* decimal text of N is exactly N seconds, whatever now is.
C9_DecimalSecondsExact ==
    (pres # NoResult /\ DecimalText(ph) /\ FitsInt64(NumberOf(ph))) =>
        SignExtend(pres.d, W128) = MulSecond(NumberOf(ph))

\* C10 as stated: zero for an empty header, a negative integer, an HTTP-date at or
\* before now and a text that is neither; exactly date - now for a later HTTP-date.
C10_DateDifferenceExact ==
    pres # NoResult =>
        /\ ph = <<>> => pres.d = Zero64
        /\ NegativeText(ph) => pres.d = Zero64
        /\ (~IntegerText(ph) /\ ~DateText(ph)) => pres.d = Zero64
        /\ DateText(ph) =>
              LET t == ParseTime(ph).t
              IN  IF TimeLE(t, pnow) THEN pres.d = Zero64
                  ELSE SignExtend(pres.d, W128) = DiffNanos(t, pnow, W128)

\* C10 amended: as above, but for an HTTP-date after now the result is date - now
\* when that fits a Duration and the largest Duration when it does not.
C10_DateDifferenceSaturated ==
    pres # NoResult =>
        /\ ph = <<>> => pres.d = Zero64
        /\ NegativeText(ph) => pres.d = Zero64
        /\ (~IntegerText(ph) /\ ~DateText(ph)) => pres.d = Zero64
        /\ DateText(ph) =>
              LET t == ParseTime(ph).t
                  exact == DiffNanos(t, pnow, W128)
              IN  IF TimeLE(t, pnow) THEN pres.d = Zero64
                  ELSE IF FitsInt64(exact) THEN SignExtend(pres.d, W128) = exact
                  ELSE pres.d = MaxInt64(W64)

\* a date one nanosecond after now
C10_Witness ==
    /\ ph = HDateSoon
    /\ pnow = Now2
    /\ pres = Parsed(FromInt(1, W64))

----------------------------------------------------------------------------
(* Properties of the client configuration. *)

NoSpaceAtEnds(s) == s = <<>> \/ (~IsSpace(s[1]) /\ ~IsSpace(s[Len(s)]))

\* p is s without its trailing slashes: s is p followed by slashes only, and p
\* does not end with a slash
IsSlashStripped(p, s) ==
    /\ Len(p) <= Len(s)
    /\ SubSeq(s, 1, Len(p)) = p
    /\ \A i \in (Len(p) + 1)..Len(s) : s[i] = "/"
    /\ (p = <<>> \/ p[Len(p)] # "/")

C12_BaseURLTrimmed == NoSpaceAtEnds(baseURL)

\* C13: httpClient is never nil; after SetHTTPClient(hc) with a non-nil hc the
\* stored transport is hc, Timeout included, after SetHTTPClient(nil) it is the
\* one stored before, and every exchange since uses the stored transport
C13_TransportSet ==
    /\ ~httpClient.nil
    /\ (hcArg.called /\ ~hcArg.arg.nil) => httpClient = hcArg.arg
    /\ (hcArg.called /\ hcArg.arg.nil) => httpClient = prevClient
    /\ used.called => used.arg = httpClient

C13_Witness ==
    /\ hcArg.called
    /\ hcArg.arg = HTTPClient(42)
    /\ used.called
    /\ used.arg.Timeout = 42

----------------------------------------------------------------------------
(* Properties of the API operations. *)

\* the call was given an empty required identifier or name
InvalidCall ==
    \/ /\ op \in {"GetNode", "UpdateNode", "MoveNode", "DeleteNode", "CompleteNode",
                  "UncompleteNode"}
       /\ opIn.nodeID = <<>>
    \/ op = "MoveNode" /\ opIn.in.ParentID = <<>>
    \/ op = "CreateNode" /\ opIn.in.Name = <<>>

\* the last exchange was answered with a 2xx response
EndedIn2xx ==
    /\ rcvd # <<>>
    /\ rcvd[Len(rcvd)].kind = "resp"
    /\ rcvd[Len(rcvd)].status \in 200..299

LastBody == rcvd[Len(rcvd)].body

\* C14: an operation called with an empty nodeID, MoveNode with an empty ParentID
\* and CreateNode with an empty Name return a non-nil error and send nothing
C14_ValidationBeforeSend ==
    InvalidCall =>
        /\ pc = "returned"
        /\ opOut # NoResult
        /\ opOut.err # NilError
        /\ sent = <<>>
        /\ sentReq = <<>>
        /\ rcvd = <<>>

C14_Witness ==
    /\ op = "MoveNode"
    /\ opIn.nodeID # <<>>
    /\ opIn.in.ParentID = <<>>
    /\ pc = "returned"
    /\ opOut.err = ValidationError("parentID is required")

\* C15: UpdateNode, MoveNode, CompleteNode and UncompleteNode return nil exactly
\* when the exchange ended with a 2xx response whose decoded status is "ok"
C15_NilIffStatusOK ==
    (op \in StatusChecked /\ pc = "returned") =>
        (opOut.err = NilError
            <=> (EndedIn2xx /\ LastBody.json /\ LastBody.status = Ptr("ok")))

C15_Witness ==
    /\ op = "MoveNode"
    /\ pc = "returned"
    /\ EndedIn2xx
    /\ LastBody.json
    /\ LastBody.status = Nil
    /\ opOut.err = UnexpectedStatus("")

\* C16: CreateNode returns a nil error only with a non-empty identifier, and the
\* empty string with every error; a 2xx response whose item_id is empty or missing
\* gives an error
C16_CreatedIDNotEmpty ==
    (op = "CreateNode" /\ pc = "returned") =>
        /\ opOut.err = NilError => opOut.val # ""
        /\ opOut.err # NilError => opOut.val = ""
        /\ (EndedIn2xx /\ LastBody.json /\ LastBody.item_id \in {Nil, Ptr("")})
              => opOut.err # NilError

C16_Witness ==
    /\ op = "CreateNode"
    /\ pc = "returned"
    /\ EndedIn2xx
    /\ LastBody.json
    /\ LastBody.item_id = Ptr("")
    /\ opOut = Return(EmptyItemID, "")

----------------------------------------------------------------------------
(* Properties of concurrent calls. *)

\* C17: under every interleaving each call counts its own attempts: its counter is
\* the number of its own waits, it sends at most 4 requests, and a call answered
\* only 429s with a positive wait and never cancelled returns after 4 sends
C17_AttemptsPerCall ==
    \A c \in Calls :
        /\ calls[c].attempt = calls[c].waited
        /\ calls[c].sent <= max429Retries + 1
        /\ (calls[c].pc = "done" /\ calls[c].clean)
              => calls[c].sent = max429Retries + 1

C17_Witness ==
    /\ calls[1].pc = "done"
    /\ calls[1].clean
    /\ calls[1].sent = 4
    /\ calls[2].pc = "done"
    /\ calls[2].sent = 2
    /\ calls[2].result = TooManyRequests(StatusTooManyRequests)

----------------------------------------------------------------------------
(* Properties of the requests. *)

\* the header carries Authorization "Bearer <key>", Accept and User-Agent, and
\* Content-Type exactly when a body was given
HeaderAsBuilt(h, key, hasBody) ==
    /\ h.Authorization # Nil
    /\ Deref(h.Authorization) = <<"B", "e", "a", "r", "e", "r", " ">> \o key
    /\ h.Accept = Ptr("application/json")
    /\ h.UserAgent # Nil
    /\ h.ContentType # Nil <=> hasBody
    /\ h.ContentType # Nil => h.ContentType = Ptr("application/json")

\* C18: the request newRequest built carries Authorization "Bearer <apiKey>",
\* Accept and User-Agent, and Content-Type exactly when a body was given; every
\* send of the call, resends after a 429 included, carries that same header
C18_HeadersOnEverySend ==
    /\ req # NoRequest => HeaderAsBuilt(req.header, apiKey, ~rawBody.nil)
    /\ \A i \in DOMAIN sentReq :
          /\ sentReq[i].header = req.header
          /\ HeaderAsBuilt(sentReq[i].header, apiKey, ~sent[i].nil)

C18_Witness ==
    /\ Len(sentReq) = 3
    /\ ~sent[3].nil
    /\ sentReq[3].header.ContentType = Ptr("application/json")
    /\ Deref(sentReq[3].header.Authorization)
          = <<"B", "e", "a", "r", "e", "r", " ", "k", "2">>

\* the chunks of body b that are members named name
MembersNamed(b, name) == {j \in DOMAIN b : Len(b[j]) = 2 /\ b[j][1] = name}

\* body b has the member name with value p points to when p is not nil, and no
\* member of that name when it is
SentAsSet(b, name, p) ==
    IF p = Nil THEN MembersNamed(b, name) = {}
    ELSE /\ Cardinality(MembersNamed(b, name)) = 1
         /\ \A j \in MembersNamed(b, name) : b[j][2] = Deref(p)

\* C19: every body UpdateNode sends has the member name, note or layoutMode exactly
\* when the pointer of the Update is not nil, with the value pointed to, an empty
\* string included
C19_UpdateSendsSetFields ==
    op = "UpdateNode" =>
        \A i \in DOMAIN sent :
            /\ ~sent[i].nil
            /\ SentAsSet(sent[i].bytes, "name", opIn.in.Name)
            /\ SentAsSet(sent[i].bytes, "note", opIn.in.Note)
            /\ SentAsSet(sent[i].bytes, "layoutMode", opIn.in.LayoutMode)

C19_Witness ==
    /\ op = "UpdateNode"
    /\ Len(sent) = 2
    /\ opIn.in.Name = Ptr(<<>>)
    /\ opIn.in.Note = Nil
    /\ MembersNamed(sent[2].bytes, "name") # {}
    /\ MembersNamed(sent[2].bytes, "note") = {}

\* C20: when no output value was passed to do, a 2xx response ends the call with a
\* nil error whatever its body, and nothing is decoded; DeleteNode returns nil
C20_NoOutputAny2xxIsNil ==
    (~v /\ pc \in {"done", "returned"} /\ EndedIn2xx) =>
        /\ result = NilError
        /\ out = ZeroOut
        /\ (op = "DeleteNode" /\ pc = "returned") => opOut.err = NilError

C20_Witness ==
    /\ op = "DeleteNode"
    /\ pc = "returned"
    /\ EndedIn2xx
    /\ ~LastBody.json
    /\ opOut.err = NilError

----------------------------------------------------------------------------
(* Termination and order of the steps of do. *)

\* C21: every call of do returns, when each exchange returns and each wait ends
C21_DoReturns == (pc = "do") ~> (pc = "done")

C21_Witness ==
    /\ pc = "done"
    /\ Len(sent) = max429Retries + 1
    /\ Len(waits) = max429Retries
    /\ result = TooManyRequests(StatusTooManyRequests)

\* the waits of the call so far, each after the 429 response of the same rank
\* and of the positive duration parsed from it
WaitsFollow429s ==
    \A i \in 1..Len(waits) :
        /\ i <= Len(rcvd)
        /\ rcvd[i].kind = "resp"
        /\ rcvd[i].status = StatusTooManyRequests
        /\ Positive(waits[i])
        /\ waits[i] = rcvd[i].wait

\* the wait in progress follows the last response received, and its duration is
\* the one parsed from that response's own Retry-After header
WaitFromOwnHeader ==
    pc = "wait" =>
        /\ Len(waits) = Len(rcvd)
        /\ \E now \in DoNows :
              waits[Len(waits)] = parseRetryAfter(rcvd[Len(rcvd)].header, now)

\* the call returned from its select on the context: it ended in a wait
EndedInWait == pc = "done" /\ result.kind = "context"

\* C22 as stated: a call that sent k requests performed at most k-1 waits
C22_WaitsBelowSends == pc = "done" => Len(waits) <= Len(sent) - 1

\* C22 (amended): sends and waits alternate starting with a send, each wait
\* follows a 429 response and has the duration parsed from its header, there are
\* at most max429Retries waits, and a call that sent k requests began k-1 waits,
\* or k waits when it returned the context's error from its last wait
C22_SendsAndWaitsAlternate ==
    /\ WaitsFollow429s
    /\ WaitFromOwnHeader
    /\ Len(waits) <= max429Retries
    /\ pc = "new" => sent = <<>> /\ waits = <<>>
    /\ pc = "do" => Len(waits) = Len(sent) /\ attempt = Len(sent)
    /\ pc = "resp" => Len(waits) = Len(sent) - 1
    /\ pc = "wait" => Len(waits) = Len(sent)
    /\ pc = "done" =>
          Len(waits) = IF EndedInWait THEN Len(sent) ELSE Len(sent) - 1

C22_Witness ==
    /\ EndedInWait
    /\ Len(sent) = 2
    /\ Len(waits) = 2
    /\ waits[1] # waits[2]

----------------------------------------------------------------------------
(* The request of a call and the client's base URL. *)

\* the step of newRequest: the request is built
Built == pc = "new" /\ pc' = "do"

\* C23: the method and URL of a request are those newRequest computed from the
\* base URL in force when it built the request; no later step, SetBaseURL
\* included, changes them, and every send and resend of the call carries them
C23_RequestFixedWhenBuilt ==
    [][/\ Built => req'.url = joinURL(baseURL, PathNodes) /\ req'.method = "GET"
       /\ pc # "new" => req' = req
       /\ sentReq' # sentReq => sentReq' = Append(sentReq, req)]_vars

\* the base URL was changed during a wait of the call, and the call sent its
\* request again to the URL of the old base
C23_Witness ==
    /\ urlArg.called
    /\ baseURL = StoredBase(ExampleURL)
    /\ Len(sentReq) >= 2
    /\ \A i \in 1..Len(sentReq) : sentReq[i].url = joinURL(BaseURL, PathNodes)
    /\ joinURL(baseURL, PathNodes) # joinURL(BaseURL, PathNodes)

----------------------------------------------------------------------------
(* The configuration of the client. *)

\* the fields of the Client
Configuration == <<apiKey, baseURL, httpClient>>

\* a step of an operation: of its entry, of newRequest, of do or of its return
OperationStep == doVars' # doVars

\* a call of SetBaseURL, of SetHTTPClient
BaseURLSet == urlArg' # urlArg
TransportGiven == hcArg' # hcArg

\* C24: apiKey is the trimmed key given to NewClient, forever; baseURL changes
\* only in a SetBaseURL call, which changes no other field; httpClient changes
\* only in a SetHTTPClient call, which changes no other field; no step of an API
\* operation changes apiKey, baseURL or httpClient
C24_ConfigurationOnlyBySetters ==
    /\ [](apiKey = TrimSpace(<<" ", "k", " ">>))
    /\ [][/\ baseURL' # baseURL => BaseURLSet
          /\ httpClient' # httpClient => TransportGiven
          /\ BaseURLSet => UNCHANGED <<apiKey, httpClient>>
          /\ TransportGiven => UNCHANGED <<apiKey, baseURL>>
          /\ OperationStep => UNCHANGED Configuration]_vars

\* SetBaseURL was called during an operation that retried and returned: the
\* client holds the new base URL, its key and its transport are those it had
C24_Witness ==
    /\ pc = "returned"
    /\ Len(sent) >= 2
    /\ urlArg.called /\ baseURL = StoredBase(ExampleURL)
    /\ httpClient = DefaultHTTPClient
    /\ apiKey = <<"k">>

============================================================================
